---- MODULE Spec2Model ----
(***************************************************************************)
(* Model of password_analyzer.py: PasswordAnalyzer.analyze_password,       *)
(* PasswordAnalyzer.generate_excellent_password and the loop of main.      *)
(*                                                                         *)
(* A text is a sequence of one-character strings, so <<"a","b">> is "ab".  *)
(* A dict is a record; a key a dict does not hold is a field the record    *)
(* does not have.  None is the empty sequence << >> and a value v that may *)
(* be None is held as <<v>>.                                               *)
(***************************************************************************)
EXTENDS Integers, Sequences, FiniteSets, TLC

VARIABLES
    pc,             \* where main is: "prompt", "done" (quit) or "KeyError"
    personal_info,  \* main's personal_info list
    password,       \* the password of the last analyze_password call
    origin,         \* where that password came from: "input", "suggestion", "generator"
    result,         \* the dict the last analyze_password call returned
    score,          \* analyze_password's local score just before it is normalized
    length,         \* the length of the last direct generate_excellent_password call
    generated       \* what that call returned

vars == <<pc, personal_info, password, origin, result, score, length, generated>>

(***************************************************************************)
(* Bounds of the model.                                                    *)
(***************************************************************************)
\* A password typed at the prompt is made of at most MaxParts fragments.
MaxParts == 2
\* Direct calls of generate_excellent_password ask for 0..MaxLength
\* characters, or for the default length.
MaxLength == 6
\* The random source of the direct generator calls: how many of the fill
\* draws are free, and how many of the last steps of the shuffle are free.
GenFree == 1
GenSpan == 2
\* The same for the generator calls analyze_password makes.
SuggestFree == 0
SuggestSpan == 1

(***************************************************************************)
(* Characters.                                                             *)
(***************************************************************************)
ascii_lowercase ==
    <<"a","b","c","d","e","f","g","h","i","j","k","l","m",
      "n","o","p","q","r","s","t","u","v","w","x","y","z">>

ascii_uppercase ==
    <<"A","B","C","D","E","F","G","H","I","J","K","L","M",
      "N","O","P","Q","R","S","T","U","V","W","X","Y","Z">>

digits == <<"0","1","2","3","4","5","6","7","8","9">>

\* string.punctuation.  The grave accent, which a TLA+ string cannot hold, is
\* written "grave".
punctuation ==
    <<"!","\"","#","$","%","&","'","(",")","*","+",",","-",".","/",":",
      ";","<","=",">","?","@","[","\\","]","^","_","grave","{","|","}","~">>

Range(s) == {s[i] : i \in 1..Len(s)}

\* The character classes of the four regular expressions of analyze_password.
LowerClass == Range(ascii_lowercase)
UpperClass == Range(ascii_uppercase)
DigitClass == Range(digits)
SpecialClass ==
    {"!","@","#","$","%","^","&","*","(",")",",",".","?","\"",":","{","}","|","<",">"}

\* A word character of the regular expressions: \b lies between one and a
\* character that is none (or an end of the text).
WordChar(c) == c \in LowerClass \cup UpperClass \cup DigitClass \cup {"_"}

\* What "." of a regular expression matches: every character but the newline.
Dot(c) == c # "\n"

IndexOf(s, c) == CHOOSE i \in 1..Len(s) : s[i] = c

\* str.lower
lower(s) ==
    [i \in 1..Len(s) |->
        IF s[i] \in UpperClass THEN ascii_lowercase[IndexOf(ascii_uppercase, s[i])]
        ELSE s[i]]

\* str.replace(old, '') for a one-character old
replace(s, old) == SelectSeq(s, LAMBDA c : c # old)

\* The decimal digits of n >= 0, as an f-string writes it.
RECURSIVE Decimal(_)
Decimal(n) ==
    IF n < 10 THEN <<digits[n + 1]>>
    ELSE Decimal(n \div 10) \o <<digits[(n % 10) + 1]>>

\* sub in s, and re.search(sub, s) for a pattern with no special character
Contains(s, sub) ==
    \E i \in 1..(Len(s) - Len(sub) + 1) : SubSeq(s, i, i + Len(sub) - 1) = sub

\* re.search(r'\b' + word + r'\b', s)
ContainsWord(s, word) ==
    \E i \in 1..(Len(s) - Len(word) + 1) :
        /\ SubSeq(s, i, i + Len(word) - 1) = word
        /\ (i = 1 \/ ~WordChar(s[i - 1]))
        /\ (i + Len(word) - 1 = Len(s) \/ ~WordChar(s[i + Len(word)]))

Min(a, b) == IF a < b THEN a ELSE b
Max(a, b) == IF a > b THEN a ELSE b

(***************************************************************************)
(* PasswordAnalyzer.__init__: the rule tables.                             *)
(***************************************************************************)
min_length == 12

common_patterns ==
    << <<"p","a","s","s","w","o","r","d">>,
       <<"a","d","m","i","n">>,
       <<"u","s","e","r">>,
       <<"l","o","g","i","n">>,
       <<"1","2","3","4">>,
       <<"q","w","e","r","t","y">>,
       <<"a","b","c">>,
       <<"l","e","t","m","e","i","n">>,
       <<"w","e","l","c","o","m","e">>,
       <<"m","o","n","k","e","y">>,
       <<"s","e","c","r","e","t">>,
       <<"l","o","v","e">>,
       <<"g","o","d">>,
       <<"j","e","s","u","s">>,
       <<"a","d","m","i","n","1","2","3">>,
       <<"p","a","s","s">>,
       <<"1","2","3","4","5">>,
       <<"6","6","6">>,
       <<"7","7","7">>,
       <<"i","l","o","v","e">> >>

dictionary_words ==
    << <<"a","p","p","l","e">>,
       <<"h","o","u","s","e">>,
       <<"b","o","o","k">>,
       <<"t","r","e","e">>,
       <<"s","u","n">>,
       <<"m","o","o","n">>,
       <<"s","t","a","r">>,
       <<"h","o","m","e">>,
       <<"w","o","r","k">>,
       <<"p","l","a","y">>,
       <<"d","o","g">>,
       <<"c","a","t">>,
       <<"b","i","r","d">>,
       <<"f","i","s","h">>,
       <<"g","a","m","e">>,
       <<"l","i","f","e">> >>

max_charset_size == 26 + 26 + 10 + 15

(***************************************************************************)
(* analyze_password.  A message is written as the sequence of its pieces.  *)
(***************************************************************************)
None == << >>
Some(v) == <<v>>

\* issues.append / recommendations.append / score -= penalty
Penalize(st, issue, recommendation, penalty) ==
    [score |-> st.score - penalty,
     issues |-> Append(st.issues, issue),
     recommendations |-> Append(st.recommendations, recommendation)]

\* if ' ' in password
has_spaces(pw) == Contains(pw, <<" ">>)

check_spaces(pw, st) ==
    IF has_spaces(pw)
    THEN Penalize(st, <<"Password contains spaces">>,
                  <<"Avoid using spaces in passwords">>, 15)
    ELSE st

length_score(pw) == Min(Len(pw) * 5, 40)

check_length(pw, st) ==
    LET s1 == [st EXCEPT !.score = @ + length_score(pw)]
    IN  IF Len(pw) < min_length
        THEN Penalize(s1,
                 <<"Password is too short (">> \o Decimal(Len(pw)) \o <<" characters)">>,
                 <<"Use at least ">> \o Decimal(min_length) \o <<" characters">>, 0)
        ELSE s1

has_lower(pw) == \E i \in 1..Len(pw) : pw[i] \in LowerClass
has_upper(pw) == \E i \in 1..Len(pw) : pw[i] \in UpperClass
has_digit(pw) == \E i \in 1..Len(pw) : pw[i] \in DigitClass
has_special(pw) == \E i \in 1..Len(pw) : pw[i] \in SpecialClass

Bit(b) == IF b THEN 1 ELSE 0

char_types(pw) ==
    Bit(has_lower(pw)) + Bit(has_upper(pw)) + Bit(has_digit(pw)) + Bit(has_special(pw))

\* char_score with the sign slipped: score -= char_score.
char_score_negated(pw) == 0 - char_types(pw) * 15

char_score(pw) == char_types(pw) * 15

check_variety(pw, st) ==
    LET s1 == [st EXCEPT !.score = @ + char_score(pw)]
    IN  IF char_types(pw) < 3
        THEN Penalize(s1, <<"Limited character variety">>,
                 <<"Include a mix of uppercase, lowercase, numbers, and special characters">>, 0)
        ELSE s1

\* The loop over common_patterns without its break.
RECURSIVE check_patterns_no_break(_, _, _)
check_patterns_no_break(patterns, pw, st) ==
    IF patterns = << >> THEN st
    ELSE IF Contains(lower(pw), Head(patterns))
         THEN check_patterns_no_break(Tail(patterns), pw,
                  Penalize(st, <<"Contains common pattern or word">>,
                      <<"Avoid common words or predictable patterns">>, 20))
         ELSE check_patterns_no_break(Tail(patterns), pw, st)

\* for pattern in self.common_patterns: ... break
RECURSIVE check_patterns(_, _, _)
check_patterns(patterns, pw, st) ==
    IF patterns = << >> THEN st
    ELSE IF Contains(lower(pw), Head(patterns))
         THEN Penalize(st, <<"Contains common pattern or word">>,
                  <<"Avoid common words or predictable patterns">>, 20)
         ELSE check_patterns(Tail(patterns), pw, st)

\* The loop over dictionary_words without its break.
RECURSIVE check_dictionary_no_break(_, _, _)
check_dictionary_no_break(words, pw, st) ==
    IF words = << >> THEN st
    ELSE IF ContainsWord(lower(pw), Head(words))
         THEN check_dictionary_no_break(Tail(words), pw,
                  Penalize(st, <<"Contains dictionary word">>,
                      <<"Avoid using common dictionary words">>, 15))
         ELSE check_dictionary_no_break(Tail(words), pw, st)

\* for word in self.dictionary_words: ... break
RECURSIVE check_dictionary(_, _, _)
check_dictionary(words, pw, st) ==
    IF words = << >> THEN st
    ELSE IF ContainsWord(lower(pw), Head(words))
         THEN Penalize(st, <<"Contains dictionary word">>,
                  <<"Avoid using common dictionary words">>, 15)
         ELSE check_dictionary(Tail(words), pw, st)

\* for info in personal_info: ... break
RECURSIVE check_personal(_, _, _)
check_personal(infos, pw, st) ==
    IF infos = << >> THEN st
    ELSE IF Head(infos) # << >> /\ Contains(lower(pw), lower(Head(infos)))
         THEN Penalize(st, <<"Contains personal information">>,
                  <<"Avoid using personal details like name or birthdate">>, 20)
         ELSE check_personal(Tail(infos), pw, st)

\* re.search(r'(.)\1{2,}', password)
has_repeated(pw) ==
    \E i \in 1..(Len(pw) - 2) : Dot(pw[i]) /\ pw[i + 1] = pw[i] /\ pw[i + 2] = pw[i]

check_repeated(pw, st) ==
    IF has_repeated(pw)
    THEN Penalize(st, <<"Contains repeated characters">>,
             <<"Avoid repeating the same character multiple times">>, 10)
    ELSE st

\* re.search(r'123|abc|xyz', password.lower())
has_sequential(pw) ==
    \/ Contains(lower(pw), <<"1","2","3">>)
    \/ Contains(lower(pw), <<"a","b","c">>)
    \/ Contains(lower(pw), <<"x","y","z">>)

check_sequential(pw, st) ==
    IF has_sequential(pw)
    THEN Penalize(st, <<"Contains sequential characters">>,
             <<"Avoid sequential characters like '123' or 'abc'">>, 10)
    ELSE st

charset_size(pw) ==
    (IF has_lower(pw) THEN 26 ELSE 0) + (IF has_upper(pw) THEN 26 ELSE 0)
    + (IF has_digit(pw) THEN 10 ELSE 0) + (IF has_special(pw) THEN 15 ELSE 0)

\* math.log2(n) in millionths of a bit, rounded down, for the values of
\* charset_size and for max_charset_size.
Log2Micro(n) ==
    CASE n = 10 -> 3321928 [] n = 15 -> 3906890 [] n = 25 -> 4643856
      [] n = 26 -> 4700439 [] n = 36 -> 5169925 [] n = 41 -> 5357552
      [] n = 51 -> 5672425 [] n = 52 -> 5700439 [] n = 62 -> 5954196
      [] n = 67 -> 6066089 [] n = 77 -> 6266786

\* math.log2(base ** exponent) in millionths of a bit.  Up to an exponent of
\* 64 the two values taken from it below, int(entropy / 2) and
\* round(entropy, 2), are those of the floating-point computation.
log2_pow(base, exponent) == exponent * Log2Micro(base)

\* math.log2(charset_size ** len(password)), or 0
entropy(pw) ==
    IF charset_size(pw) > 0 THEN log2_pow(charset_size(pw), Len(pw)) ELSE 0

\* min(int(entropy / 2), 30), or 0
entropy_score(pw) ==
    IF charset_size(pw) > 0 THEN Min(entropy(pw) \div 2000000, 30) ELSE 0

max_entropy(pw) == log2_pow(max_charset_size, Len(pw))

\* round(x, 2) of a value in millionths of a bit, in hundredths of a bit
round2(x) == (x + 5000) \div 10000

\* The locals score, issues and recommendations after the checks and the
\* entropy bonus, before the score is normalized.
checks(pw, infos) ==
    LET s0 == [score |-> 0, issues |-> << >>, recommendations |-> << >>]
        s1 == check_spaces(pw, s0)
        s2 == check_length(pw, s1)
        s3 == check_variety(pw, s2)
        s4 == check_patterns(common_patterns, pw, s3)
        s5 == check_dictionary(dictionary_words, pw, s4)
        s6 == check_personal(infos, pw, s5)
        s7 == check_repeated(pw, s6)
        s8 == check_sequential(pw, s7)
    IN  [s8 EXCEPT !.score = @ + entropy_score(pw)]

\* normalize without the upper limit: score = max(0, score).
normalize_no_upper(s) == Max(0, s)

\* score = max(0, min(score, 100))
normalize(s) == Max(0, Min(s, 100))

\* The if/elif chain whose "Strong" branch sets generated_password = None.
rate_strong_none(s) ==
    IF s >= 90 THEN [strength |-> "Excellent", generate |-> FALSE]
    ELSE IF s >= 70 THEN [strength |-> "Strong", generate |-> FALSE]
    ELSE IF s >= 50 THEN [strength |-> "Moderate", generate |-> TRUE]
    ELSE IF s >= 30 THEN [strength |-> "Weak", generate |-> TRUE]
    ELSE [strength |-> "Very Weak", generate |-> TRUE]

\* The if/elif chain over the normalized score: the strength a branch sets,
\* and whether it calls generate_excellent_password.
rate(s) ==
    IF s >= 90 THEN [strength |-> "Excellent", generate |-> FALSE]
    ELSE IF s >= 70 THEN [strength |-> "Strong", generate |-> TRUE]
    ELSE IF s >= 50 THEN [strength |-> "Moderate", generate |-> TRUE]
    ELSE IF s >= 30 THEN [strength |-> "Weak", generate |-> TRUE]
    ELSE [strength |-> "Very Weak", generate |-> TRUE]

\* The dict returned for an empty password.
empty_result ==
    [score |-> 0,
     strength |-> "Invalid",
     issues |-> << <<"Password cannot be empty">> >>,
     recommendations |-> << <<"Enter a non-empty password">> >>,
     generated_password |-> None,
     entropy |-> 0,
     max_entropy |-> 0]

\* The dict returned for a non-empty password, given the locals and the
\* value of generated_password.
full_result(pw, st, gen) ==
    [score |-> normalize(st.score),
     strength |-> rate(normalize(st.score)).strength,
     issues |-> IF st.issues # << >> THEN st.issues
                ELSE << <<"No major issues detected">> >>,
     recommendations |-> IF st.recommendations # << >> THEN st.recommendations
                         ELSE << <<"Maintain good password practices">> >>,
     entropy |-> round2(entropy(pw)),
     max_entropy |-> round2(max_entropy(pw)),
     generated_password |-> gen,
     has_spaces |-> has_spaces(pw)]

(***************************************************************************)
(* generate_excellent_password.  The outcomes of the random source are a   *)
(* choice: choice(seq) is every character random.choice(seq) may return    *)
(* among RandomChars.  Of the fill draws the first `free` are free and     *)
(* each later one returns what the draw before it returned; of the steps   *)
(* of random.shuffle those at the indices below `span` are free and the    *)
(* others swap an element with itself.                                     *)
(***************************************************************************)
RandomChars == {"a", "A", "6", "!", "_"}

default_length == 16

\* random.choice(seq)
choice(seq) == Range(seq) \cap RandomChars

\* chars = ascii_lowercase + ascii_uppercase + digits + punctuation.replace(' ', '')
chars == ascii_lowercase \o ascii_uppercase \o digits \o replace(punctuation, " ")

\* The guaranteed characters with the digit drawn from the punctuation.
guaranteed_no_digit ==
    { <<l, u, d, s>> : l \in choice(ascii_lowercase), u \in choice(ascii_uppercase),
                       d \in choice(replace(punctuation, " ")),
                       s \in choice(replace(punctuation, " ")) }

\* The list of the four guaranteed characters, one of each type.
guaranteed ==
    { <<l, u, d, s>> : l \in choice(ascii_lowercase), u \in choice(ascii_uppercase),
                       d \in choice(digits), s \in choice(replace(punctuation, " ")) }

RECURSIVE Repeat(_, _)
Repeat(c, n) == IF n <= 0 THEN << >> ELSE <<c>> \o Repeat(c, n - 1)

\* for _ in range(n): password.append(random.choice(chars)): the characters appended
RECURSIVE fill(_, _, _)
fill(n, free, last) ==
    IF n <= 0 THEN { << >> }
    ELSE IF free <= 0 THEN { Repeat(last, n) }
    ELSE UNION { { <<c>> \o rest : rest \in fill(n - 1, free - 1, c) } : c \in choice(chars) }

Swap(x, i, j) == [x EXCEPT ![i] = x[j], ![j] = x[i]]

\* The j of a step of random.shuffle: a number below n
randbelow(n, span) == IF n <= span THEN 0..(n - 1) ELSE {n - 1}

\* random.shuffle(x): for i in reversed(range(1, len(x))): swap x[i], x[randbelow(i + 1)];
\* the steps i, i - 1, ..., 1 (the indices of the code count from 0)
RECURSIVE shuffle(_, _, _)
shuffle(x, i, span) ==
    IF i < 1 THEN {x}
    ELSE UNION { shuffle(Swap(x, i + 1, j + 1), i - 1, span) : j \in randbelow(i + 1, span) }

\* Every text generate_excellent_password(n) may return.
generate_excellent_password(n, free, span) ==
    UNION { UNION { shuffle(g \o f, Len(g \o f) - 1, span) : f \in fill(n - 4, free, g[4]) }
            : g \in guaranteed }

(***************************************************************************)
(* analyze_password as a whole.                                            *)
(***************************************************************************)
\* Every outcome of analyze_password(pw, infos): the dict it returns (ret)
\* and its local score before it is normalized (0 when the password is empty
\* and the local is never set).
analyze_password(pw, infos, free, span) ==
    IF pw = << >> THEN { [ret |-> empty_result, score |-> 0] }
    ELSE LET st == checks(pw, infos)
         IN  IF rate(normalize(st.score)).generate
             THEN { [ret |-> full_result(pw, st, Some(g)), score |-> st.score]
                    : g \in generate_excellent_password(default_length, free, span) }
             ELSE { [ret |-> full_result(pw, st, None), score |-> st.score] }

(***************************************************************************)
(* The inputs of the model.                                                *)
(***************************************************************************)
Fragments ==
    { <<"p","a","s","s","w","o","r","d">>,
      <<"l","o","v","e">>,
      <<"1","9","9","0">>,
      <<"d","o","g">>,
      <<" ","c","a","t">>,
      <<" ">>,
      <<"a","b","c">>,
      <<"x","y","z">>,
      <<"a","a","a">>,
      <<"T","r","$","9","k","L","p","2","!","x","Q","w">>,
      <<"A">>,
      <<"_">>,
      <<"!">>,
      <<"D","o","g","!">> }

\* The texts made of at most n fragments.
RECURSIVE Texts(_)
Texts(n) ==
    IF n <= 0 THEN { << >> }
    ELSE Texts(n - 1) \cup { t \o f : t \in Texts(n - 1), f \in Fragments }

quit == <<"q","u","i","t">>

\* What is typed at main's password prompt.
Inputs == Texts(MaxParts) \cup { quit, <<"Q","u","i","t">> }

\* What is typed at main's two personal-information prompts, stripped.
Names == { << >>, <<"D","o","g">> }
Birthdates == { << >>, <<"1","9","9","0">> }

\* personal_info = [info for info in [name, birthdate] if info]
collect(name, birthdate) == SelectSeq(<<name, birthdate>>, LAMBDA info : info # << >>)

(***************************************************************************)
(* The state machine.  Init is main after it has built the analyzer and    *)
(* collected personal_info.  main is at its prompt ("prompt"), about to    *)
(* call analyze_password on the password it read ("call"), printing the    *)
(* result ("print"), or over: left by 'quit' ("done") or by an uncaught    *)
(* KeyError ("KeyError").  What a turn of the loop leaves behind is read   *)
(* by no later turn, and the model forgets it when the turn ends.          *)
(***************************************************************************)
Init ==
    /\ pc = "prompt"
    /\ personal_info \in { collect(n, b) : n \in Names, b \in Birthdates }
    /\ password = << >>
    /\ origin = "none"
    /\ result = None
    /\ score = 0
    /\ length = 0
    /\ generated = None

\* password = input(...); if password.lower() == 'quit': break
Read(p, from) ==
    /\ pc = "prompt"
    /\ password' = p
    /\ origin' = from
    /\ pc' = IF lower(p) = quit THEN "done" ELSE "call"
    /\ UNCHANGED <<personal_info, result, score, length, generated>>

\* A password is typed at the prompt.
main_input == \E p \in Inputs : Read(p, "input")

\* result = analyzer.analyze_password(password, personal_info)
Call(free, span) ==
    /\ pc = "call"
    /\ \E r \in analyze_password(password, personal_info, free, span) :
          /\ result' = Some(r.ret)
          /\ score' = r.score
    /\ pc' = "print"
    /\ UNCHANGED <<personal_info, password, origin, length, generated>>

main_call == Call(SuggestFree, SuggestSpan)

\* The prints of the turn, which read result['strength'], ['score'],
\* ['entropy'], ['max_entropy'], ['has_spaces'], ['issues'],
\* ['recommendations'] and ['generated_password']; then the prompt again,
\* where `retype` says whether the suggested password is typed in.
main_print ==
    /\ pc = "print"
    /\ IF "has_spaces" \notin DOMAIN result[1]
       THEN /\ pc' = "KeyError"
            /\ UNCHANGED <<password, origin, result, score, length, generated>>
       ELSE \E retype \in BOOLEAN :
               /\ retype => result[1].generated_password # None
               /\ password' = IF retype THEN result[1].generated_password[1] ELSE << >>
               /\ origin' = IF retype THEN "suggestion" ELSE "none"
               /\ pc' = IF retype THEN "call" ELSE "prompt"
               /\ result' = None
               /\ score' = 0
               /\ length' = 0
               /\ generated' = None
    /\ UNCHANGED personal_info

Next == main_input \/ main_call \/ main_print

Spec == Init /\ [][Next]_vars

(***************************************************************************)
(* The generator explored: direct calls of generate_excellent_password,    *)
(* whose result is then typed at the prompt, and main's loop on            *)
(* one-fragment passwords with the wider random source.                    *)
(***************************************************************************)
Lengths == (0..MaxLength) \cup {default_length}

\* generate_excellent_password(n) is called.
generate ==
    /\ pc = "prompt"
    /\ generated = None
    /\ \E n \in Lengths :
          /\ length' = n
          /\ \E g \in generate_excellent_password(n, GenFree, GenSpan) : generated' = Some(g)
    /\ UNCHANGED <<pc, personal_info, password, origin, result, score>>

\* The password the direct call returned is typed at the prompt.
main_input_generated ==
    /\ generated # None
    /\ Read(generated[1], "generator")

\* A one-fragment password is typed at the prompt.
main_input_short ==
    /\ generated = None
    /\ \E p \in Texts(1) : Read(p, "input")

\* The call of analyze_password: a suggestion for a typed password is drawn
\* from the wider random source.
main_call_wide ==
    IF origin = "input" THEN Call(GenFree, GenSpan) ELSE Call(SuggestFree, SuggestSpan)

NextGen ==
    generate \/ main_input_generated \/ main_input_short \/ main_call_wide \/ main_print

SpecGen == Init /\ [][NextGen]_vars

(***************************************************************************)
(* The properties.                                                         *)
(***************************************************************************)
\* main holds a result of analyze_password that it has not printed yet.
Returned == pc = "print"

\* That result.
Ret == result[1]

Strengths == {"Very Weak", "Weak", "Moderate", "Strong", "Excellent"}

ResultFields ==
    {"score", "strength", "issues", "recommendations", "entropy", "max_entropy",
     "generated_password", "has_spaces"}

SpacesIssue == <<"Password contains spaces">>
VarietyIssue == <<"Limited character variety">>
PatternIssue == <<"Contains common pattern or word">>
DictionaryIssue == <<"Contains dictionary word">>
PersonalIssue == <<"Contains personal information">>
RepeatedIssue == <<"Contains repeated characters">>
SequentialIssue == <<"Contains sequential characters">>

PenaltyIssues ==
    {SpacesIssue, PatternIssue, DictionaryIssue, PersonalIssue, RepeatedIssue,
     SequentialIssue}

Count(seq, x) == Cardinality({i \in 1..Len(seq) : seq[i] = x})

\* C1: for every non-empty password and personal_info list the returned
\* score is an integer from 0 to 100 and the strength is one of the five
\* labels other than Invalid.
C1_ScoreInRange ==
    (Returned /\ password # << >>) =>
        /\ Ret.score \in 0..100
        /\ Ret.strength \in Strengths

\* C1: a score above 100 before it is normalized is returned as 100.
C1_Witness ==
    /\ Returned
    /\ score > 100
    /\ Ret.score = 100
    /\ Ret.strength = "Excellent"

\* C2 as stated: in every result, the empty password's included,
\* generated_password is None if and only if the strength is Excellent.
C2_NoneIffExcellent ==
    Returned => (Ret.generated_password = None <=> Ret.strength = "Excellent")

\* C2 as amended: for a non-empty password generated_password is None if and
\* only if the strength is Excellent; for the empty password it is None and
\* the strength is Invalid.
C2_NoneIffExcellentOrEmpty ==
    Returned =>
        IF password = << >>
        THEN Ret.generated_password = None /\ Ret.strength = "Invalid"
        ELSE Ret.generated_password = None <=> Ret.strength = "Excellent"

\* C2: a result for a non-empty password that is Strong and carries a
\* generated password.
C2_Witness ==
    /\ Returned
    /\ password # << >>
    /\ Ret.strength = "Strong"
    /\ Ret.generated_password # None

\* C3: every result holds all the fields of the AnalysisResult record, so
\* that main, which reads has_spaces, never finds it missing.
C3_AllFields ==
    /\ result # None => ResultFields \subseteq DOMAIN Ret
    /\ pc # "KeyError"

\* C6 as stated: analyze_password("password", []) reports the common pattern
\* with its penalty of 20 and the too-short issue, its strength is Very Weak
\* or Weak, and its generated_password is not None.
C6_PasswordWeak ==
    (Returned /\ password = <<"p","a","s","s","w","o","r","d">> /\ personal_info = << >>) =>
        /\ Count(Ret.issues, PatternIssue) = 1
        /\ Count(Ret.issues, <<"Password is too short (", "8", " characters)">>) = 1
        /\ score = 40 + 15 + 18 - 20
        /\ Ret.strength \in {"Very Weak", "Weak"}
        /\ Ret.generated_password # None

\* C6 as amended: analyze_password("password", []) reports the common
\* pattern with its penalty of 20 and the too-short issue, its score is 53,
\* its strength is Moderate, and its generated_password is not None.
C6_PasswordModerate ==
    (Returned /\ password = <<"p","a","s","s","w","o","r","d">> /\ personal_info = << >>) =>
        /\ Count(Ret.issues, PatternIssue) = 1
        /\ Count(Ret.issues, <<"Password is too short (", "8", " characters)">>) = 1
        /\ score = 40 + 15 + 18 - 20
        /\ Ret.score = 53
        /\ Ret.strength = "Moderate"
        /\ Ret.generated_password # None

\* C6: "password" has been analyzed with no personal information.
C6_Witness ==
    /\ Returned
    /\ password = <<"p","a","s","s","w","o","r","d">>
    /\ personal_info = << >>
    /\ Ret.score = 53

\* The penalties a list of issues shows.
Penalties(issues) == Range(issues) \cap PenaltyIssues

LowercaseOnly(pw) == \A i \in 1..Len(pw) : pw[i] \in LowerClass

\* The inputs of lowercase letters only that have 12 characters or more.
LowercaseInputs == { q \in Inputs : Len(q) >= 12 /\ LowercaseOnly(q) }

\* The passwords q that C7 compares the analyzed password with: as long,
\* of lowercase letters only, and with the same penalties.
C7_Lowercase ==
    { q \in LowercaseInputs :
        /\ Len(q) = Len(password)
        /\ Penalties(checks(q, personal_info).issues) = Penalties(Ret.issues) }

\* C7: a password of length >= 12 with lowercase letters and at least one
\* more character type scores at least what a password of lowercase letters
\* only scores that has the same length and the same penalties.
C7_MoreTypesScoreMore ==
    (Returned /\ Len(password) >= 12 /\ has_lower(password) /\ char_types(password) >= 2) =>
        \A q \in C7_Lowercase :
            Ret.score >= normalize(checks(q, personal_info).score)

\* C7: such a pair, whose scores are below 100 and differ.
C7_Witness ==
    /\ Returned
    /\ Len(password) >= 12
    /\ has_lower(password)
    /\ char_types(password) >= 2
    /\ \E q \in C7_Lowercase :
          /\ Ret.score < 100
          /\ Ret.score > normalize(checks(q, personal_info).score)

\* The score the claim C10 gives, before it is normalized.
C10_Score(pw, infos) ==
    Min(5 * Len(pw), 40) + 15 * char_types(pw)
    + (IF charset_size(pw) > 0 THEN Min(entropy(pw) \div 2000000, 30) ELSE 0)
    - 15 * Bit(has_spaces(pw))
    - 20 * Bit(\E i \in 1..Len(common_patterns) : Contains(lower(pw), common_patterns[i]))
    - 15 * Bit(\E i \in 1..Len(dictionary_words) : ContainsWord(lower(pw), dictionary_words[i]))
    - 20 * Bit(\E i \in 1..Len(infos) : infos[i] # << >> /\ Contains(lower(pw), lower(infos[i])))
    - 10 * Bit(has_repeated(pw))
    - 10 * Bit(has_sequential(pw))

C4_GeneratedHasAllTypes ==
    (generated # None /\ length >= 4) =>
        /\ Len(generated[1]) = length
        /\ has_lower(generated[1])
        /\ has_upper(generated[1])
        /\ has_digit(generated[1])
        /\ has_special(generated[1])
        /\ ~has_spaces(generated[1])

\* C5: every password generate_excellent_password returns at the default
\* length is rated Excellent by analyze_password, given no personal
\* information.
C5_GeneratedIsExcellent ==
    (Returned /\ origin = "generator" /\ length = default_length /\ personal_info = << >>) =>
        /\ Ret.strength = "Excellent"
        /\ Ret.score >= 90

\* C8: the analysis of a password that analyze_password suggested reports no
\* limited character variety and no spaces, and its score is that of C10
\* with no penalty for spaces in it.
C8_SuggestionRoundTrip ==
    (Returned /\ origin = "suggestion") =>
        /\ Count(Ret.issues, VarietyIssue) = 0
        /\ Count(Ret.issues, SpacesIssue) = 0
        /\ Ret.has_spaces = FALSE
        /\ score = C10_Score(password, personal_info) + 15 * Bit(has_spaces(password))

\* C8: a suggested password with three of the four character types has been
\* analyzed.
C8_Witness ==
    /\ Returned
    /\ origin = "suggestion"
    /\ char_types(password) = 3
    /\ Count(Ret.issues, VarietyIssue) = 0

\* C9: once the generator has returned a password, the character classes are
\* in step: the analyzer's special class has 15 symbols, the generator draws
\* its special characters from that class, every character of the password
\* is of one of the analyzer's four classes, and the generator's alphabet
\* has at most max_charset_size symbols.
C9_ClassesInStep ==
    generated # None =>
        /\ Cardinality(SpecialClass) = 15
        /\ Range(replace(punctuation, " ")) = SpecialClass
        /\ \A i \in 1..Len(generated[1]) :
              generated[1][i] \in LowerClass \cup UpperClass \cup DigitClass \cup SpecialClass
        /\ Len(chars) <= max_charset_size

====
